---- MODULE Spec2Model ----
(***************************************************************************)
(* The North Indian chart component of VedicJyotish                        *)
(* (frontend/app/components/NorthIndianChart.tsx) as a state machine.      *)
(*                                                                         *)
(* The page mounts the component once, with the props of the calculated    *)
(* chart (page.tsx:180-183; step never returns to "form"), and React then  *)
(* evaluates the function component, again on every re-render of the page. *)
(* An evaluation yields the element tree: one <text> per house holding one *)
(* <tspan> per planet, and the twelve sign-number <text> elements.         *)
(*                                                                         *)
(* JavaScript values are modelled as follows.                              *)
(*   - a planet name is a sequence of one-character strings;               *)
(*   - props.data is a function from the house numbers k for which the     *)
(*     key house_k is present to the entry [hasPlanets, planets];          *)
(*     hasPlanets = FALSE is an entry whose planets field is undefined;    *)
(*   - the value of renderPlanets is [kind, elems], kind "null" or         *)
(*     "array", or "throw" for a TypeError that would escape the call.     *)
(* The inputs are the ones the chart service's interface allows: every     *)
(* planet entry carries a string name.                                     *)
(*                                                                         *)
(* The page around it (frontend/app/page.tsx) is modelled by two further   *)
(* specifications: ChatSpec, the chat of the dashboard (handleChat and the *)
(* settling of its requests), and CitySpec, the city autocomplete of the   *)
(* form (the debounce effect, searchCity and selectCity). A handler reads  *)
(* the state of the render it belongs to; what it reads after an await is  *)
(* what it captured before it.                                             *)
(***************************************************************************)
EXTENDS Integers, Sequences, FiniteSets, TLC

VARIABLES mounted, props, output, renderCount

\* The state of the page (frontend/app/page.tsx). chatRequests and searches
\* are the calls to the service that have not settled, each with the values
\* its continuation captured; timer is the pending debounce timeout with the
\* values its callback captured. chatSubmitted, issued, latestAnswered and
\* shownSeq record the history the properties speak about.
VARIABLES chatHistory, userQuestion, chatLoading, chatRequests, chatSubmitted,
          cityInput, cityResults, selectedCity, timer, searches,
          issued, latestAnswered, shownSeq

vars == <<mounted, props, output, renderCount>>

chatVars == <<chatHistory, userQuestion, chatLoading, chatRequests, chatSubmitted>>
cityVars == <<cityInput, cityResults, selectedCity, timer, searches,
              issued, latestAnswered, shownSeq>>
pageVars == <<chatVars, cityVars>>
allVars == <<vars, chatVars, cityVars>>

\* ---------------------------------------------------------------- bounds
\* longest planet list placed in the house that varies
MaxPlanets == 2
\* evaluations of the component for one set of props
MaxRenders == 2
\* questions submitted to the chat in one session
MaxQuestions == 3
\* city searches issued in one session
MaxSearches == 3

\* ---------------------------------------------------------- program data
Houses == 0..11

SIGN_MAP ==
  [n \in {"Aries", "Taurus", "Gemini", "Cancer", "Leo", "Virgo", "Libra",
          "Scorpio", "Sagittarius", "Capricorn", "Aquarius", "Pisces"} |->
     CASE n = "Aries" -> 1 [] n = "Taurus" -> 2 [] n = "Gemini" -> 3
       [] n = "Cancer" -> 4 [] n = "Leo" -> 5 [] n = "Virgo" -> 6
       [] n = "Libra" -> 7 [] n = "Scorpio" -> 8 [] n = "Sagittarius" -> 9
       [] n = "Capricorn" -> 10 [] n = "Aquarius" -> 11 [] n = "Pisces" -> 12]

\* indexed houseIndex + 1
HOUSE_CENTERS ==
  << [x |-> 50, y |-> 20], [x |-> 20, y |-> 10], [x |-> 10, y |-> 20],
     [x |-> 25, y |-> 50], [x |-> 10, y |-> 80], [x |-> 20, y |-> 90],
     [x |-> 50, y |-> 80], [x |-> 80, y |-> 90], [x |-> 90, y |-> 80],
     [x |-> 75, y |-> 50], [x |-> 90, y |-> 20], [x |-> 80, y |-> 10] >>

\* the ten-entry table the component declares and never reads
SIGN_POSITIONS ==
  << [x |-> 50, y |-> 45], [x |-> 45, y |-> 5], [x |-> 5, y |-> 45],
     [x |-> 50, y |-> 55], [x |-> 5, y |-> 55], [x |-> 45, y |-> 95],
     [x |-> 50, y |-> 65], [x |-> 55, y |-> 95], [x |-> 95, y |-> 55],
     [x |-> 50, y |-> 45] >>

\* x, y of the twelve sign-number <text> elements, in document order
SIGN_TEXT_XY ==
  << [x |-> 50, y |-> 42], [x |-> 15, y |-> 8], [x |-> 5, y |-> 18],
     [x |-> 40, y |-> 52], [x |-> 5, y |-> 85], [x |-> 15, y |-> 95],
     [x |-> 50, y |-> 60], [x |-> 85, y |-> 95], [x |-> 95, y |-> 85],
     [x |-> 60, y |-> 52], [x |-> 95, y |-> 18], [x |-> 85, y |-> 8] >>

\* side of the svg viewBox "0 0 100 100"
ViewBox == 100

\* the six grid lines, as the <line> elements give them
GridLines ==
  [ d1 |-> [x1 |-> 0, y1 |-> 0, x2 |-> 100, y2 |-> 100],
    d2 |-> [x1 |-> 100, y1 |-> 0, x2 |-> 0, y2 |-> 100],
    tl |-> [x1 |-> 50, y1 |-> 0, x2 |-> 0, y2 |-> 50],
    bl |-> [x1 |-> 0, y1 |-> 50, x2 |-> 50, y2 |-> 100],
    br |-> [x1 |-> 50, y1 |-> 100, x2 |-> 100, y2 |-> 50],
    tr |-> [x1 |-> 100, y1 |-> 50, x2 |-> 50, y2 |-> 0] ]

\* ------------------------------------------------------------ JS helpers
Min(a, b) == IF a < b THEN a ELSE b
Max(a, b) == IF a > b THEN a ELSE b

\* String.prototype.substring: both indices clamped to 0..length, swapped
\* when start > end, the characters [lo, hi) returned
substring(s, start, end) ==
  LET a == Min(Max(start, 0), Len(s))
      b == Min(Max(end, 0), Len(s))
      lo == Min(a, b)
      hi == Max(a, b)
  IN SubSeq(s, lo + 1, hi)

JsNull == [kind |-> "null", elems |-> <<>>]
JsThrow == [kind |-> "throw", elems |-> <<>>]
JsArray(s) == [kind |-> "array", elems |-> s]

\* ---------------------------------------------------------- the component
\* const ascNum = SIGN_MAP[ascendantSign] || 1
ascNumOf(ascendantSign) ==
  IF ascendantSign \in DOMAIN SIGN_MAP THEN SIGN_MAP[ascendantSign] ELSE 1

\* the number in the key `house_${houseIndex + 1}`
houseKeyOffByOne(houseIndex) == houseIndex
houseKey(houseIndex) == houseIndex + 1

\* {p.name.substring(0, 2)}
DisplayCodeOneChar(name) == substring(name, 0, 1)
DisplayCode(name) == substring(name, 0, 2)

\* the <tspan> of planet p at index i (0-based) of the house's list
TSpanAbsoluteDy(houseIndex, name, i) ==
  [ key |-> name, x |-> HOUSE_CENTERS[houseIndex + 1].x,
    dy |-> 12 * i, text |-> DisplayCode(name) ]
TSpan(houseIndex, name, i) ==
  [ key |-> name, x |-> HOUSE_CENTERS[houseIndex + 1].x,
    dy |-> IF i = 0 THEN 0 ELSE 12, text |-> DisplayCode(name) ]

renderPlanetsNoGuard(data, houseIndex) ==
  LET k == houseKey(houseIndex)
  IN IF k \notin DOMAIN data THEN JsThrow
     ELSE IF ~data[k].hasPlanets THEN JsThrow
     ELSE JsArray([i \in 1..Len(data[k].planets) |->
                     TSpan(houseIndex, data[k].planets[i], i - 1)])
renderPlanetsStateful(data, houseIndex) ==
  LET k == houseKey(houseIndex)
  IN IF k \notin DOMAIN data THEN JsNull
     ELSE IF ~data[k].hasPlanets THEN JsNull
     ELSE JsArray([i \in 1..Len(data[k].planets) |->
                     [TSpan(houseIndex, data[k].planets[i], i - 1)
                        EXCEPT !.dy = @ + renderCount]])
renderPlanets(data, houseIndex) ==
  LET k == houseKey(houseIndex)
  IN IF k \notin DOMAIN data THEN JsNull
     ELSE IF ~data[k].hasPlanets THEN JsNull
     ELSE JsArray([i \in 1..Len(data[k].planets) |->
                     TSpan(houseIndex, data[k].planets[i], i - 1)])

getSignNumOffByOne(ascNum, houseIdx) == ((ascNum + houseIdx) % 12) + 1
getSignNum(ascNum, houseIdx) == ((ascNum + houseIdx - 1) % 12) + 1

\* HOUSE_CENTERS.map((pos, i) => <text x={pos.x} y={pos.y}>{renderPlanets(i)}</text>)
HouseTextCentred(data, i) ==
  LET r == renderPlanets(data, i)
  IN [ x |-> HOUSE_CENTERS[i + 1].x,
       y |-> HOUSE_CENTERS[i + 1].y - 6 * Len(r.elems),
       tspans |-> r.elems ]
HouseText(data, i) ==
  [ x |-> HOUSE_CENTERS[i + 1].x, y |-> HOUSE_CENTERS[i + 1].y,
    tspans |-> renderPlanets(data, i).elems ]

\* <text x=.. y=..>{getSignNum(k)}</text>, the k-th of the twelve
SignTextFromTable(ascNum, k) ==
  [ x |-> SIGN_POSITIONS[(k % Len(SIGN_POSITIONS)) + 1].x,
    y |-> SIGN_POSITIONS[(k % Len(SIGN_POSITIONS)) + 1].y,
    num |-> getSignNum(ascNum, k) ]
SignText(ascNum, k) ==
  [ x |-> SIGN_TEXT_XY[k + 1].x, y |-> SIGN_TEXT_XY[k + 1].y,
    num |-> getSignNum(ascNum, k) ]

NoOutput == [status |-> "none", texts |-> <<>>, signs |-> <<>>]

\* the element tree of one evaluation; an exception in a child expression
\* escapes the component
NorthIndianChart(data, ascendantSign) ==
  LET ascNum == ascNumOf(ascendantSign)
  IN IF \E i \in Houses : renderPlanets(data, i).kind = "throw"
     THEN [status |-> "TypeError", texts |-> <<>>, signs |-> <<>>]
     ELSE [ status |-> "ok",
            texts |-> [i \in Houses |-> HouseText(data, i)],
            signs |-> [k \in Houses |-> SignText(ascNum, k)] ]

\* ----------------------------------------------------------------- inputs
Sun == <<"S", "u", "n">>
Moon == <<"M", "o", "o", "n">>
Mars == <<"M", "a", "r", "s">>
Mercury == <<"M", "e", "r", "c", "u", "r", "y">>
Jupiter == <<"J", "u", "p", "i", "t", "e", "r">>
Venus == <<"V", "e", "n", "u", "s">>
Saturn == <<"S", "a", "t", "u", "r", "n">>
Rahu == <<"R", "a", "h", "u">>
Ketu == <<"K", "e", "t", "u">>

\* names of length 0, 1 and 2 for the house that varies, none a planet's
\* (the longer names are those of SampleChart)
PlanetNames == { <<>>, <<"X">>, <<"R", "a">> }

RECURSIVE SeqsUpTo(_, _)
SeqsUpTo(S, n) ==
  IF n = 0 THEN { <<>> }
  ELSE LET shorter == SeqsUpTo(S, n - 1)
       IN shorter \cup { Append(s, e) : s \in {t \in shorter : Len(t) = n - 1}, e \in S }

List(s) == [hasPlanets |-> TRUE, planets |-> s]
NoPlanetsField == [hasPlanets |-> FALSE, planets |-> <<>>]

\* what one house key can hold; "absent" is the key missing from the object
HouseEntries ==
  { [present |-> FALSE, entry |-> NoPlanetsField] }
    \cup { [present |-> TRUE, entry |-> NoPlanetsField] }
    \cup { [present |-> TRUE, entry |-> List(s)] : s \in SeqsUpTo(PlanetNames, MaxPlanets) }

EmptyObject == [k \in {} |-> NoPlanetsField]
AllEmptyLists == [k \in 1..12 |-> List(<<>>)]
\* a chart of nine planets; house_3 is absent, house_5 has no planets field
SampleChart ==
  [k \in (1..12) \ {3} |->
     CASE k = 1 -> List(<<Sun, Mercury, Venus>>)
       [] k = 2 -> List(<<Mars>>)
       [] k = 4 -> List(<<Moon>>)
       [] k = 5 -> NoPlanetsField
       [] k = 7 -> List(<<Saturn, Rahu>>)
       [] k = 9 -> List(<<Jupiter>>)
       [] k = 12 -> List(<<Ketu>>)
       [] OTHER -> List(<<>>)]

BaseCharts == {EmptyObject, AllEmptyLists, SampleChart}

\* base with the key house_k replaced (or removed)
WithHouse(base, k, e) ==
  [j \in IF e.present THEN DOMAIN base \cup {k} ELSE DOMAIN base \ {k} |->
     IF j = k THEN e.entry ELSE base[j]]

ChartDatas == { WithHouse(b, k, e) : b \in BaseCharts, k \in 1..12, e \in HouseEntries }

\* the twelve sign names and three strings that are none of them
AscendantInputs == DOMAIN SIGN_MAP \cup {"Ophiuchus", "aries", ""}

\* ------------------------------------------------------ the page: chat
Whitespace == {" ", "\t"}

\* String.prototype.trim
RECURSIVE TrimStart(_)
TrimStart(s) ==
  IF s # <<>> /\ Head(s) \in Whitespace THEN TrimStart(Tail(s)) ELSE s
RECURSIVE TrimEnd(_)
TrimEnd(s) ==
  IF s # <<>> /\ s[Len(s)] \in Whitespace THEN TrimEnd(SubSeq(s, 1, Len(s) - 1)) ELSE s
trim(s) == TrimEnd(TrimStart(s))

\* what the user may type into the chat input: two blank texts, two questions
QuestionInputs == { <<>>, <<" ">>, <<"a">>, <<" ", "b">> }
\* res.response of the chat service
Responses == { <<"o", "k">> }
\* "Error connecting to the stars."
ErrorText == <<"E", "r", "r", "o", "r", " ", "c", "o", "n", "n", "e", "c", "t", "i", "n", "g", " ", "t", "o", " ", "t", "h", "e", " ", "s", "t", "a", "r", "s", ".">>

ChatInit ==
  /\ chatHistory = <<>>
  /\ userQuestion = <<>>
  /\ chatLoading = FALSE
  /\ chatRequests = {}
  /\ chatSubmitted = <<>>

\* onChange of the chat input
setUserQuestion(q) ==
  /\ mounted
  /\ q # userQuestion
  /\ userQuestion' = q
  /\ UNCHANGED <<chatHistory, chatLoading, chatRequests, chatSubmitted>>

\* handleChat up to its await, called by the Enter key of the input (never
\* disabled) or by the send button (disabled while chatLoading). chatHistory
\* and userQuestion are the values of the render the handler belongs to.
handleChat(viaButton) ==
  /\ mounted
  /\ viaButton => ~chatLoading
  /\ Len(chatSubmitted) < MaxQuestions
  /\ IF trim(userQuestion) = <<>>
     THEN UNCHANGED chatVars
     ELSE LET newMsg == [role |-> "user", text |-> userQuestion]
              updatedHistory == Append(chatHistory, newMsg)
          IN /\ chatHistory' = updatedHistory
             /\ userQuestion' = <<>>
             /\ chatLoading' = TRUE
             /\ chatRequests' = chatRequests \cup
                  { [id |-> Len(chatSubmitted) + 1, updatedHistory |-> updatedHistory] }
             /\ chatSubmitted' = Append(chatSubmitted, userQuestion)

\* the continuation of handleChat after chatWithAstrologer resolved
ChatResolve(r, response) ==
  /\ r \in chatRequests
  /\ chatHistory' = Append(r.updatedHistory, [role |-> "model", text |-> response])
  /\ chatLoading' = FALSE
  /\ chatRequests' = chatRequests \ {r}
  /\ UNCHANGED <<userQuestion, chatSubmitted>>

\* the continuation of handleChat after chatWithAstrologer threw
ChatReject(r) ==
  /\ r \in chatRequests
  /\ chatHistory' = Append(r.updatedHistory, [role |-> "model", text |-> ErrorText])
  /\ chatLoading' = FALSE
  /\ chatRequests' = chatRequests \ {r}
  /\ UNCHANGED <<userQuestion, chatSubmitted>>

\* ------------------------------------------- the page: city autocomplete
Mumbai == [name |-> "Mumbai"]
Mumbra == [name |-> "Mumbra"]

\* what the user may type into the city input
CityInputs == {"", "Mu", "Mum", "Mumb"}

\* what the city service may answer to a query
ServiceResults(query) == { <<>>, <<Mumbai>>, <<Mumbai, Mumbra>> }

\* the values searchCity(query) may resolve to: [] for a short query and for
\* a response that is not ok, else the body of the response
searchCity(query) ==
  IF Len(query) < 3 THEN { <<>> } ELSE { <<>> } \cup ServiceResults(query)

\* the effect of [cityInput, selectedCity]: when a dependency changed, the
\* cleanup clears the pending timeout and a new one is set, its callback
\* holding the new values; selected is !!selectedCity
EffectTimer(newInput, newSelected) ==
  IF <<newInput, newSelected>> = <<cityInput, selectedCity>> THEN timer
  ELSE << [cityInput |-> newInput, selected |-> newSelected # <<>>] >>

\* after the first render the effect has set its first timeout
CityInit ==
  /\ cityInput = ""
  /\ cityResults = <<>>
  /\ selectedCity = <<>>
  /\ timer = << [cityInput |-> "", selected |-> FALSE] >>
  /\ searches = {}
  /\ issued = 0
  /\ latestAnswered = 0
  /\ shownSeq = 0

\* onChange of the city input: setCityInput(v); setSelectedCity(null)
onChangeCity(v) ==
  /\ ~mounted
  /\ v # cityInput
  /\ cityInput' = v
  /\ selectedCity' = <<>>
  /\ timer' = EffectTimer(v, <<>>)
  /\ UNCHANGED <<cityResults, searches, issued, latestAnswered, shownSeq>>

\* a click on an entry of the dropdown
selectCity(city) ==
  /\ ~mounted
  /\ \E n \in 1..Len(cityResults) : cityResults[n] = city
  /\ selectedCity' = <<city>>
  /\ cityInput' = city.name
  /\ cityResults' = <<>>
  /\ shownSeq' = 0
  /\ timer' = EffectTimer(city.name, <<city>>)
  /\ UNCHANGED <<searches, issued, latestAnswered>>

\* the timeout callback up to its await, 500 ms after the effect ran
TimerFire ==
  /\ timer # <<>>
  /\ LET t == timer[1]
     IN IF Len(t.cityInput) >= 3 /\ ~t.selected
        THEN /\ issued < MaxSearches
             /\ searches' = searches \cup { [seq |-> issued + 1, query |-> t.cityInput] }
             /\ issued' = issued + 1
             /\ UNCHANGED <<cityResults, shownSeq>>
        ELSE /\ cityResults' = <<>>
             /\ shownSeq' = 0
             /\ UNCHANGED <<searches, issued>>
  /\ timer' = <<>>
  /\ UNCHANGED <<cityInput, selectedCity, latestAnswered>>

\* the callback's continuation: setCityResults(results)
SearchResolve(r, results) ==
  /\ r \in searches
  /\ results \in searchCity(r.query)
  /\ cityResults' = results
  /\ shownSeq' = r.seq
  /\ latestAnswered' = Max(latestAnswered, r.seq)
  /\ searches' = searches \ {r}
  /\ UNCHANGED <<cityInput, selectedCity, timer, issued>>

\* fetch rejected: the callback's promise rejects and nothing is set
SearchFail(r) ==
  /\ r \in searches
  /\ searches' = searches \ {r}
  /\ UNCHANGED <<cityInput, cityResults, selectedCity, timer, issued,
                 latestAnswered, shownSeq>>

\* ---------------------------------------------------------------- actions
Init ==
  /\ mounted = FALSE
  /\ props = [data |-> EmptyObject, ascendantSign |-> ""]
  /\ output = NoOutput
  /\ renderCount = 0
  /\ ChatInit
  /\ CityInit

\* <NorthIndianChart data={chartData.chart_data} ascendantSign={chartData.ascendant.sign} />
Mount(data, ascendantSign) ==
  /\ ~mounted
  /\ mounted' = TRUE
  /\ props' = [data |-> data, ascendantSign |-> ascendantSign]
  /\ UNCHANGED <<output, renderCount>>

\* one evaluation of the function component on the current props
Render ==
  /\ mounted
  /\ renderCount < MaxRenders
  /\ output' = NorthIndianChart(props.data, props.ascendantSign)
  /\ renderCount' = renderCount + 1
  /\ UNCHANGED <<mounted, props>>

\* the page reaches the dashboard once, with whatever chart the service sent
MountChart ==
  /\ ~mounted
  /\ \E d \in ChartDatas, a \in AscendantInputs : Mount(d, a)

Next ==
  \/ MountChart /\ UNCHANGED pageVars
  \/ Render /\ UNCHANGED pageVars

Spec == Init /\ [][Next]_vars

\* the dashboard with its chat, shown once a chart has arrived
ShowDashboard == Mount(SampleChart, "Libra")

ChatNext ==
  \/ ShowDashboard /\ UNCHANGED pageVars
  \/ \E q \in QuestionInputs : setUserQuestion(q) /\ UNCHANGED <<vars, cityVars>>
  \/ \E viaButton \in BOOLEAN : handleChat(viaButton) /\ UNCHANGED <<vars, cityVars>>
  \/ \E r \in chatRequests, response \in Responses :
       ChatResolve(r, response) /\ UNCHANGED <<vars, cityVars>>
  \/ \E r \in chatRequests : ChatReject(r) /\ UNCHANGED <<vars, cityVars>>

ChatSpec == Init /\ [][ChatNext]_allVars

\* the form with its city input, shown until a chart has arrived
CityNext ==
  \/ \E v \in CityInputs : onChangeCity(v) /\ UNCHANGED <<vars, chatVars>>
  \/ \E city \in {Mumbai, Mumbra} : selectCity(city) /\ UNCHANGED <<vars, chatVars>>
  \/ TimerFire /\ UNCHANGED <<vars, chatVars>>
  \/ \E r \in searches : \E results \in searchCity(r.query) :
       SearchResolve(r, results) /\ UNCHANGED <<vars, chatVars>>
  \/ \E r \in searches : SearchFail(r) /\ UNCHANGED <<vars, chatVars>>

CitySpec == Init /\ [][CityNext]_allVars

\* ------------------------------------------------------- reading an output
Rendered == renderCount > 0
RenderedOk == Rendered /\ output.status = "ok"

RECURSIVE SumDy(_, _)
SumDy(tspans, n) == IF n = 0 THEN 0 ELSE SumDy(tspans, n - 1) + tspans[n].dy

\* where the n-th tspan (1-based) of a <text> is drawn: x is absolute, each
\* dy shifts the current text position relative to the previous one
LabelX(text, n) == text.tspans[n].x
LabelY(text, n) == text.y + SumDy(text.tspans, n)

\* the planet list the input holds for house i (empty when there is none)
InputPlanets(data, i) ==
  IF (i + 1) \in DOMAIN data /\ data[i + 1].hasPlanets THEN data[i + 1].planets ELSE <<>>

\* the labels of the whole chart
RECURSIVE TotalLabels(_, _)
TotalLabels(out, n) ==
  IF n = 0 THEN 0 ELSE TotalLabels(out, n - 1) + Len(out.texts[n - 1].tspans)

RECURSIVE TotalPlanets(_, _)
TotalPlanets(data, n) ==
  IF n = 0 THEN 0 ELSE TotalPlanets(data, n - 1) + Len(InputPlanets(data, n - 1))

HouseMissing(data, i) ==
  (i + 1) \notin DOMAIN data \/ ~data[i + 1].hasPlanets

PlanetAnchor(out, h) == <<out.texts[h].x, out.texts[h].y>>
SignAnchor(out, h) == <<out.signs[h].x, out.signs[h].y>>
Anchors(out) ==
  [h \in Houses |-> [planet |-> PlanetAnchor(out, h), sign |-> SignAnchor(out, h)]]

\* ------------------------------------------------- the canonical geometry
Sgn(n) == IF n > 0 THEN 1 ELSE IF n < 0 THEN -1 ELSE 0

\* which side of the directed line l the point p lies on
Side(l, p) ==
  Sgn((l.x2 - l.x1) * (p[2] - l.y1) - (l.y2 - l.y1) * (p[1] - l.x1))

\* The sides that bound each house, counter-clockwise from the top diamond.
\* As the lines are drawn, d1 is positive below the diagonal (0,0)-(100,100),
\* d2 is positive above the diagonal (100,0)-(0,100), and each diamond edge
\* is positive on the side of its corner of the square.
HouseRegion ==
  << [d1 |-> -1, d2 |-> 1, tl |-> -1, tr |-> -1],
     [d1 |-> -1, tl |-> 1],
     [d1 |-> 1, tl |-> 1],
     [d1 |-> 1, d2 |-> 1, tl |-> -1, bl |-> -1],
     [d2 |-> 1, bl |-> 1],
     [d2 |-> -1, bl |-> 1],
     [d1 |-> 1, d2 |-> -1, bl |-> -1, br |-> -1],
     [d1 |-> 1, br |-> 1],
     [d1 |-> -1, br |-> 1],
     [d1 |-> -1, d2 |-> -1, br |-> -1, tr |-> -1],
     [d2 |-> -1, tr |-> 1],
     [d2 |-> 1, tr |-> 1] >>

InRegion(p, h) ==
  /\ 0 < p[1] /\ p[1] < ViewBox
  /\ 0 < p[2] /\ p[2] < ViewBox
  /\ \A l \in DOMAIN HouseRegion[h + 1] :
       Side(GridLines[l], p) = HouseRegion[h + 1][l]

\* ================================================================ claims

\* C1: for a recognized ascendant of ordinal a, the sign number of house h is
\* ((a + h - 1) mod 12) + 1, lies in 1..12, house 0 carries a, the number
\* after n is (n mod 12) + 1, and the twelve houses carry 1..12 once each.
C1_SignRotation ==
  (RenderedOk /\ props.ascendantSign \in DOMAIN SIGN_MAP) =>
    LET a == SIGN_MAP[props.ascendantSign]
        num(h) == output.signs[h].num
    IN /\ \A h \in Houses : num(h) \in 1..12
       /\ \A h \in Houses : num(h) = ((a + h - 1) % 12) + 1
       /\ num(0) = a
       /\ \A h \in 0..10 : num(h + 1) = (num(h) % 12) + 1
       /\ {num(h) : h \in Houses} = 1..12

C1_Witness ==
  /\ RenderedOk
  /\ props.ascendantSign = "Capricorn"
  /\ output.signs[3].num = 1
  /\ output.signs[2].num = 12

\* C2: an ascendant sign name that is none of the twelve makes the evaluation
\* fail (InvalidSignError) instead of producing a chart with sign numbers.
C2_InvalidSignSurfaced ==
  (Rendered /\ props.ascendantSign \notin DOMAIN SIGN_MAP) => output.status # "ok"

\* C3: a house with no entry, or with an entry that has no planet list, gets
\* zero planet labels, raises no error, and leaves the other houses' labels
\* and the twelve sign numbers as usual.
C3_MissingHouseEmpty ==
  Rendered =>
    \A i \in Houses :
      HouseMissing(props.data, i) =>
        /\ output.status = "ok"
        /\ output.texts[i].tspans = <<>>
        /\ \A j \in Houses \ {i} :
             Len(output.texts[j].tspans) = Len(InputPlanets(props.data, j))
        /\ DOMAIN output.signs = Houses
        /\ \A k \in Houses : output.signs[k].num \in 1..12

C3_Witness ==
  /\ RenderedOk
  /\ \E i, j, l \in Houses :
       /\ (i + 1) \notin DOMAIN props.data
       /\ (j + 1) \in DOMAIN props.data /\ ~props.data[j + 1].hasPlanets
       /\ Len(output.texts[l].tspans) > 0
       /\ output.texts[i].tspans = <<>> /\ output.texts[j].tspans = <<>>

\* C4: a house's planets get one label each, in list order; the label of the
\* planet at 0-based position i is drawn at the house's anchor x and at
\* anchor y + 12 * i, so the labels go strictly downward in list order.
C4_StackedLabels ==
  RenderedOk =>
    \A h \in Houses :
      LET t == output.texts[h]
          ps == InputPlanets(props.data, h)
      IN /\ Len(t.tspans) = Len(ps)
         /\ \A n \in 1..Len(ps) :
              /\ t.tspans[n].key = ps[n]
              /\ LabelX(t, n) = HOUSE_CENTERS[h + 1].x
              /\ LabelY(t, n) = HOUSE_CENTERS[h + 1].y + 12 * (n - 1)
              /\ n > 1 => LabelY(t, n) > LabelY(t, n - 1)

C4_Witness ==
  /\ RenderedOk
  /\ InputPlanets(props.data, 0) = <<Sun, Mercury, Venus>>
  /\ Len(output.texts[0].tspans) = 3
  /\ LabelY(output.texts[0], 1) = 20
  /\ LabelY(output.texts[0], 3) = 44

\* C5: every output has the twelve sign-number labels, and the planet labels
\* of house i are exactly the entries of the list under house_(i+1), so the
\* labels number as many as the planets of the twelve lists; twelve empty
\* lists give no planet label.
C5_LabelsMatchInput ==
  Rendered =>
    /\ output.status = "ok"
    /\ DOMAIN output.signs = Houses
    /\ \A i \in Houses :
         [n \in 1..Len(output.texts[i].tspans) |-> output.texts[i].tspans[n].key]
           = InputPlanets(props.data, i)
    /\ TotalLabels(output, 12) = TotalPlanets(props.data, 12)
    /\ (\A i \in Houses : InputPlanets(props.data, i) = <<>>)
         => TotalLabels(output, 12) = 0

C5_Witness ==
  /\ RenderedOk
  /\ props.data = AllEmptyLists
  /\ TotalLabels(output, 12) = 0
  /\ Cardinality(DOMAIN output.signs) = 12

\* C6: the display code of a planet is the first min(2, length) characters
\* of its name, whatever the name, and the name never makes rendering fail.
C6_DisplayCode ==
  Rendered =>
    /\ output.status = "ok"
    /\ \A i \in Houses :
         /\ Len(output.texts[i].tspans) = Len(InputPlanets(props.data, i))
         /\ \A n \in 1..Len(output.texts[i].tspans) :
              LET name == InputPlanets(props.data, i)[n]
                  code == output.texts[i].tspans[n].text
              IN /\ Len(code) = Min(2, Len(name))
                 /\ \A c \in 1..Len(code) : code[c] = name[c]

C6_Witness ==
  /\ RenderedOk
  /\ \E i \in Houses :
       /\ Len(output.texts[i].tspans) = 2
       /\ output.texts[i].tspans[1].key = <<>>
       /\ output.texts[i].tspans[1].text = <<>>
       /\ output.texts[i].tspans[2].key = <<"X">>
       /\ output.texts[i].tspans[2].text = <<"X">>
  /\ Len(output.texts[0].tspans) = 3
  /\ output.texts[0].tspans[2].key = Mercury
  /\ output.texts[0].tspans[2].text = <<"M", "e">>

C8_References ==
  { NorthIndianChart(EmptyObject, "Aries"), NorthIndianChart(SampleChart, "Libra") }

C8_AnchorsFixed ==
  RenderedOk =>
    /\ \A ref \in C8_References : Anchors(output) = Anchors(ref)
    /\ \A h \in Houses : \A n \in 1..Len(output.texts[h].tspans) :
         output.texts[h].tspans[n].x = output.texts[h].x

C8_Witness ==
  /\ RenderedOk
  /\ props.ascendantSign = "Scorpio"
  /\ props.data \notin {EmptyObject, SampleChart}
  /\ Len(output.texts[5].tspans) = 2

\* C9: no two houses share a planet anchor or a sign-number anchor, and both
\* anchors of house i lie inside house i's region of the grid, the houses
\* taken counter-clockwise from the top diamond.
C9_AnchorsInRegions ==
  RenderedOk =>
    \A h \in Houses :
      /\ InRegion(PlanetAnchor(output, h), h)
      /\ InRegion(SignAnchor(output, h), h)
      /\ \A g \in Houses \ {h} :
           /\ PlanetAnchor(output, g) # PlanetAnchor(output, h)
           /\ SignAnchor(output, g) # SignAnchor(output, h)

C9_Witness ==
  /\ RenderedOk
  /\ props.ascendantSign = "Leo"
  /\ SignAnchor(output, 9) = <<60, 52>>
  /\ PlanetAnchor(output, 9) = <<75, 50>>

\* C10: in a house of at most 6 planets every stacked label position
\* anchor y + 12 * i stays within 0..100.
C10_StackInsideChart ==
  RenderedOk =>
    \A h \in Houses :
      Len(output.texts[h].tspans) <= 6 =>
        \A n \in 1..Len(output.texts[h].tspans) :
          /\ 0 <= LabelY(output.texts[h], n)
          /\ LabelY(output.texts[h], n) <= ViewBox

\* --------------------------------------------------- reading the chat
RECURSIVE UserTexts(_)
UserTexts(h) ==
  IF h = <<>> THEN <<>>
  ELSE IF Head(h).role = "user" THEN <<Head(h).text>> \o UserTexts(Tail(h))
  ELSE UserTexts(Tail(h))

RECURSIVE ModelCount(_)
ModelCount(h) ==
  IF h = <<>> THEN 0
  ELSE (IF Head(h).role = "model" THEN 1 ELSE 0) + ModelCount(Tail(h))

\* C11: no message of the chat is lost: once no request is outstanding,
\* chatHistory holds every submitted question in submission order and one
\* model message (reply or error) for each; and chatLoading is false only
\* when no request is outstanding.
C11_NoMessageLost ==
  /\ chatRequests = {} =>
       /\ UserTexts(chatHistory) = chatSubmitted
       /\ ModelCount(chatHistory) = Len(chatSubmitted)
  /\ ~chatLoading => chatRequests = {}

\* C12: while a city is selected (from selectCity to the next edit of the
\* input) cityResults is empty, and the results displayed are never those of
\* an older query than the latest one answered.
C12_ResultsFresh ==
  /\ selectedCity # <<>> => cityResults = <<>>
  /\ cityResults # <<>> => shownSeq >= latestAnswered

====
